---- MODULE Spec2Model ----
(***************************************************************************)
(* arigold: the AgentOrchestrator of src/src/arigold/agent.py and the      *)
(* Cloud Functions entry point of src/src/arigold/main.py.                 *)
(*                                                                         *)
(* Python values are tagged records: [k |-> "str", s |-> ...],             *)
(* [k |-> "int", n |-> ...], [k |-> "bool", b |-> ...], [k |-> "null"],    *)
(* [k |-> "list", items |-> <<...>>] and [k |-> "dict", entries |-> <<..>>]*)
(* whose entries are [key |-> string, val |-> value] in insertion order;   *)
(* [k |-> "object", id |-> ...] is an opaque object (a delegate handle).   *)
(* Text is a TLA+ string; "\n" is the line break.                          *)
(***************************************************************************)
EXTENDS Integers, Sequences, FiniteSets, TLC

VARIABLES
    environ,        \* os.environ.get("GOOGLE_API_KEY"): None or the key
    orchestrator,   \* main.py: the module global; 0 is None, else an instance id
    sub_agents,     \* sub_agents[i]: the registry of AgentOrchestrator instance i
    pc,             \* pc[t]: where worker thread t is inside arigold_agent
    http,           \* http[t]: the flask request thread t is serving
    frame,          \* frame[t]: the locals of arigold_agent / process_request
                    \* (outcome: the response or exception of generate_content)
    resp,           \* resp[t]: what arigold_agent returned for http[t]
    calls,          \* calls[t]: the calls made so far on behalf of http[t]
    regLog,         \* the register_agent calls made by a direct caller, in order
    ret             \* the last direct call of an orchestrator method and its value

vars == <<environ, orchestrator, sub_agents, pc, http, frame, resp, calls, regLog, ret>>

httpVars == <<environ, orchestrator, pc, http, frame, resp, calls>>

(***************************************************************************)
(* Bounds of the model.                                                    *)
(***************************************************************************)
MaxRegs == 3
MaxCtx == 2

Threads == {"t1", "t2"}
Workers == {"t1"}
Names == {"x", "y", "none"}

(***************************************************************************)
(* Python values and the built-ins the code applies to them.               *)
(***************************************************************************)
PyNone == [k |-> "null"]
PyStrV(s) == [k |-> "str", s |-> s]
PyInt(n) == [k |-> "int", n |-> n]
PyBool(b) == [k |-> "bool", b |-> b]
PyList(items) == [k |-> "list", items |-> items]
PyDict(entries) == [k |-> "dict", entries |-> entries]
PyObject(id) == [k |-> "object", id |-> id]
Entry(key, val) == [key |-> key, val |-> val]

\* bool(v), as `if not v` / `if v` / `v or {}` evaluate it
Truthy(v) ==
    CASE v.k = "null" -> FALSE
      [] v.k = "str" -> v.s # ""
      [] v.k = "int" -> v.n # 0
      [] v.k = "bool" -> v.b
      [] v.k = "list" -> Len(v.items) > 0
      [] v.k = "dict" -> Len(v.entries) > 0

\* type(v).__name__, as it appears in AttributeError / TypeError messages
TypeName(v) ==
    CASE v.k = "null" -> "NoneType"
      [] v.k = "str" -> "str"
      [] v.k = "int" -> "int"
      [] v.k = "bool" -> "bool"
      [] v.k = "list" -> "list"
      [] v.k = "dict" -> "dict"

RECURSIVE Join(_, _)
\* sep.join(parts)
Join(sep, parts) ==
    IF Len(parts) = 0 THEN ""
    ELSE IF Len(parts) = 1 THEN parts[1]
    ELSE parts[1] \o sep \o Join(sep, Tail(parts))

\* str(v), the f-string conversion of a value
Display(v) ==
    CASE v.k = "null" -> "None"
      [] v.k = "str" -> v.s
      [] v.k = "int" -> ToString(v.n)
      [] v.k = "bool" -> (IF v.b THEN "True" ELSE "False")
      [] v.k = "list" ->
            "[" \o Join(", ", [i \in 1..Len(v.items) |-> ToString(v.items[i])]) \o "]"

\* list(d.keys()) of an insertion-ordered dict
Keys(entries) == [i \in 1..Len(entries) |-> entries[i].key]

HasKey(entries, key) == \E i \in 1..Len(entries) : entries[i].key = key

\* d.get(key, default)
DictGet(entries, key, default) ==
    IF HasKey(entries, key)
    THEN entries[CHOOSE i \in 1..Len(entries) : entries[i].key = key].val
    ELSE default

\* d[key] = val: an existing key keeps its position, a new key goes last
DictSet(entries, key, val) ==
    IF HasKey(entries, key)
    THEN [i \in 1..Len(entries) |->
            IF entries[i].key = key THEN Entry(key, val) ELSE entries[i]]
    ELSE Append(entries, Entry(key, val))

Handles == {PyObject("h1"), PyObject("h2")}

(***************************************************************************)
(* config.py: the settings the orchestrator reads (defaults).              *)
(***************************************************************************)
agent_name == "Ari Gold Super Agent"
agent_description == "An orchestrating agent that coordinates multiple specialized agents"
model_name == "gemini-2.0-flash-exp"

(***************************************************************************)
(* agent.py: AgentOrchestrator.                                            *)
(***************************************************************************)
\* __init__: the registry of a new instance
NewRegistry == <<>>

\* a variant of register_agent: a name registered again moves to the end
register_agent_reinsert(registry, name, agent) ==
    Append(SelectSeq(registry, LAMBDA e : e.key # name), Entry(name, agent))

\* register_agent(name, agent) on a registry
register_agent(registry, name, agent) == DictSet(registry, name, agent)

\* a variant of list_agents: the names latest first
list_agents_reversed(registry) ==
    [i \in 1..Len(registry) |-> registry[Len(registry) + 1 - i].key]

\* list_agents()
list_agents(registry) == Keys(registry)

PromptHead ==
    "You are " \o agent_name \o ", " \o agent_description \o ".\n\n"
    \o "Your role is to understand user requests and coordinate with specialized agents when needed.\n\n"
    \o "Available sub-agents: "

PromptTail ==
    "\n\nWhen processing requests:\n"
    \o "1. Analyze the user's request carefully\n"
    \o "2. Determine if you can handle it directly or if a specialized agent is needed\n"
    \o "3. If delegation is needed, explain which agent would be appropriate and why\n"
    \o "4. Provide clear, helpful responses\n"
    \o "5. Coordinate multiple agents if the task requires it\n\n"
    \o "Always be helpful, clear, and efficient in your responses."

\* a variant of the agent_list: no placeholder for an empty registry
AgentListNoPlaceholder(registry) == Join(", ", Keys(registry))

\* the agent_list of _build_system_prompt
AgentList(registry) ==
    IF Len(registry) > 0 THEN Join(", ", Keys(registry)) ELSE "none"

_build_system_prompt(registry) == PromptHead \o AgentList(registry) \o PromptTail

\* a variant of the prompt_parts: no blank line after the context
PromptPartsNoBlank(user_request, context) ==
    (IF Truthy(context)
     THEN <<"Context:">>
          \o [i \in 1..Len(context.entries) |->
                "- " \o context.entries[i].key \o ": " \o Display(context.entries[i].val)]
     ELSE <<>>)
    \o <<"User Request: " \o Display(user_request)>>

\* the prompt_parts of _prepare_prompt; context is a Python value (None, a dict)
PromptParts(user_request, context) ==
    (IF Truthy(context)
     THEN <<"Context:">>
          \o [i \in 1..Len(context.entries) |->
                "- " \o context.entries[i].key \o ": " \o Display(context.entries[i].val)]
          \o <<"">>
     ELSE <<>>)
    \o <<"User Request: " \o Display(user_request)>>

_prepare_prompt(user_request, context) == Join("\n", PromptParts(user_request, context))

FallbackResponse == "I encountered an error processing your request."

\* a variant of the success record: an `error` key that is always present
SuccessRecordWithError(text, registry, context) ==
    [response |-> text,
     model |-> model_name,
     agents_available |-> list_agents(registry),
     context |-> IF Truthy(context) THEN context ELSE PyDict(<<>>),
     error |-> ""]

\* process_request, lines 119-124: the record returned when generation succeeds
SuccessRecord(text, registry, context) ==
    [response |-> text,
     model |-> model_name,
     agents_available |-> list_agents(registry),
     context |-> IF Truthy(context) THEN context ELSE PyDict(<<>>)]

\* process_request, lines 129-135: the record returned when generation raises
ErrorRecord(message, registry) ==
    [error |-> message,
     response |-> FallbackResponse,
     agents_available |-> list_agents(registry)]

\* user_request[:100] raises TypeError unless the value can be sliced
Sliceable(v) == v.k \in {"str", "list"}

(***************************************************************************)
(* The generation service: client.models.generate_content returns a        *)
(* response whose text is read, or an exception is raised by the call or   *)
(* by reading response.text.  str(e) of the exception is `text`; it is     *)
(* empty for an exception raised without a message (a read timeout).       *)
(***************************************************************************)
GenOutcomes ==
    {[ok |-> TRUE, at |-> "return", text |-> "Hello!"],
     [ok |-> FALSE, at |-> "generate_content", text |-> "429 RESOURCE_EXHAUSTED"],
     [ok |-> FALSE, at |-> "generate_content", text |-> ""],
     [ok |-> FALSE, at |-> "response.text", text |-> "no text part"]}

(***************************************************************************)
(* main.py: the HTTP entry point.                                          *)
(***************************************************************************)
Methods == {"OPTIONS", "POST", "GET"}

DemoContext == PyDict(<<Entry("user", PyStrV("demo_user"))>>)

\* request.get_json(silent=True): None when the body is absent or not JSON
HttpBodies ==
    {PyNone,
     PyList(<<1>>),
     PyDict(<<>>),
     PyDict(<<Entry("context", DemoContext)>>),
     PyDict(<<Entry("request", PyStrV(""))>>),
     PyDict(<<Entry("request", PyStrV("hello"))>>),
     PyDict(<<Entry("request", PyStrV("hello")), Entry("context", DemoContext)>>),
     PyDict(<<Entry("request", PyStrV("hello")), Entry("context", PyList(<<1>>))>>),
     PyDict(<<Entry("request", PyInt(5))>>)}

NoHttp == [method |-> "", body |-> PyNone]
NoOutcome == [ok |-> FALSE, at |-> "", text |-> ""]
NoFrame ==
    [user_request |-> PyNone, context |-> PyNone, agent |-> 0,
     system_prompt |-> "", full_prompt |-> "", outcome |-> NoOutcome]
NoResp == [status |-> 0, body |-> PyStrV(""), headers |-> {}]

\* json.dumps(doc): the text of a JSON document
JsonDumps(doc) == [k |-> "json", doc |-> doc]

PreflightHeaders ==
    {<<"Access-Control-Allow-Origin", "*">>,
     <<"Access-Control-Allow-Methods", "POST, GET, OPTIONS">>,
     <<"Access-Control-Allow-Headers", "Content-Type">>,
     <<"Access-Control-Max-Age", "3600">>}

MainHeaders == {<<"Access-Control-Allow-Origin", "*">>}

\* lines 49-56
PreflightResponse == [status |-> 204, body |-> PyStrV(""), headers |-> PreflightHeaders]

\* lines 65-70 and 76-81
BadRequest(message) ==
    [status |-> 400, body |-> JsonDumps([error |-> message]), headers |-> MainHeaders]

\* lines 89-95: the handler of an exception raised inside the try block
InternalError(message) ==
    [status |-> 500,
     body |-> JsonDumps([error |-> "Internal error: " \o message]),
     headers |-> MainHeaders]

\* a variant of line 87: an error record is answered 500
OkUnlessError(result) ==
    [status |-> IF "error" \in DOMAIN result THEN 500 ELSE 200,
     body |-> JsonDumps(result),
     headers |-> MainHeaders]

\* line 87
Ok(result) == [status |-> 200, body |-> JsonDumps(result), headers |-> MainHeaders]

\* str(e) of the AttributeError raised by v.attr
NoAttribute(v, attr) ==
    "'" \o TypeName(v) \o "' object has no attribute '" \o attr \o "'"

\* str(e) of the TypeError raised by v[:100]
NotSubscriptable(v) == "'" \o TypeName(v) \o "' object is not subscriptable"

\* lines 73-74
RequestField(body) == DictGet(body.entries, "request", PyStrV(""))
ContextField(body) == DictGet(body.entries, "context", PyDict(<<>>))

\* a variant of lines 49-81: the body is validated before the method is looked at
EarlyResponseBodyFirst(method, body) ==
    IF ~Truthy(body) THEN BadRequest("No JSON body provided")
    ELSE IF body.k # "dict" THEN InternalError(NoAttribute(body, "get"))
    ELSE IF ~Truthy(RequestField(body)) THEN BadRequest("No 'request' field provided")
    ELSE IF method = "OPTIONS" THEN PreflightResponse
    ELSE NoResp

\* lines 49-81: what arigold_agent returns before it reaches get_orchestrator,
\* or NoResp when it goes on to process the request
EarlyResponse(method, body) ==
    IF method = "OPTIONS" THEN PreflightResponse
    ELSE IF ~Truthy(body) THEN BadRequest("No JSON body provided")
    ELSE IF body.k # "dict" THEN InternalError(NoAttribute(body, "get"))
    ELSE IF ~Truthy(RequestField(body)) THEN BadRequest("No 'request' field provided")
    ELSE NoResp

\* arigold_agent, lines 49-81: a worker thread takes a request
Receive(t, method, body) ==
    /\ pc[t] \in {"idle", "done"}
    /\ http' = [http EXCEPT ![t] = [method |-> method, body |-> body]]
    /\ calls' = [calls EXCEPT ![t] = {}]
    /\ LET early == EarlyResponse(method, body) IN
        IF early # NoResp
        THEN /\ resp' = [resp EXCEPT ![t] = early]
             /\ frame' = [frame EXCEPT ![t] = NoFrame]
             /\ pc' = [pc EXCEPT ![t] = "done"]
        ELSE /\ resp' = [resp EXCEPT ![t] = NoResp]
             /\ frame' = [frame EXCEPT ![t] =
                    [NoFrame EXCEPT !.user_request = RequestField(body),
                                    !.context = ContextField(body)]]
             /\ pc' = [pc EXCEPT ![t] = "get_orchestrator"]
    /\ UNCHANGED <<environ, orchestrator, sub_agents, regLog, ret>>

\* get_orchestrator, line 30: the test `orchestrator is None`
CheckOrchestrator(t) ==
    /\ pc[t] = "get_orchestrator"
    /\ calls' = [calls EXCEPT ![t] = @ \cup {"get_orchestrator"}]
    /\ pc' = [pc EXCEPT ![t] =
            IF orchestrator = 0 THEN "construct" ELSE "return_orchestrator"]
    /\ UNCHANGED <<environ, orchestrator, sub_agents, http, frame, resp, regLog, ret>>

\* get_orchestrator, lines 31-33: a new instance is built and stored in the
\* global (the instance is visible to no other thread before the store).
\* __init__ (agent.py 43-61) raises nothing itself: credentials are used by
\* the first generation call.
Construct(t) ==
    /\ pc[t] = "construct"
    /\ sub_agents' = Append(sub_agents, NewRegistry)
    /\ orchestrator' = Len(sub_agents) + 1
    /\ calls' = [calls EXCEPT ![t] = @ \cup {"AgentOrchestrator"}]
    /\ pc' = [pc EXCEPT ![t] = "return_orchestrator"]
    /\ UNCHANGED <<environ, http, frame, resp, regLog, ret>>

\* str(e) of the ValueError of genai.Client() when it finds no credentials
MissingKey == "Missing key inputs argument!"

\* get_orchestrator, lines 31-32, without GOOGLE_API_KEY: genai.Client()
\* (agent.py 50) looks for credentials itself and raises when there are
\* none; the exception escapes to arigold_agent's handler, the global stays
\* None
ConstructFails(t) ==
    /\ pc[t] = "construct"
    /\ ~Truthy(environ)
    /\ calls' = [calls EXCEPT ![t] = @ \cup {"AgentOrchestrator"}]
    /\ resp' = [resp EXCEPT ![t] = InternalError(MissingKey)]
    /\ pc' = [pc EXCEPT ![t] = "done"]
    /\ UNCHANGED <<environ, orchestrator, sub_agents, http, frame, regLog, ret>>

\* get_orchestrator, line 34, and main.py line 84: the global is read again
ReturnOrchestrator(t) ==
    /\ pc[t] = "return_orchestrator"
    /\ frame' = [frame EXCEPT ![t].agent = orchestrator]
    /\ pc' = [pc EXCEPT ![t] = "process_request"]
    /\ UNCHANGED <<environ, orchestrator, sub_agents, http, resp, calls, regLog, ret>>

\* process_request_sync -> process_request, lines 98-116: the prompts are
\* built and generate_content is called; an exception raised before the try
\* block of process_request escapes to arigold_agent's handler
ProcessRequest(t) ==
    /\ pc[t] = "process_request"
    /\ LET f == frame[t] IN
        IF ~Sliceable(f.user_request)
        THEN /\ resp' = [resp EXCEPT ![t] = InternalError(NotSubscriptable(f.user_request))]
             /\ pc' = [pc EXCEPT ![t] = "done"]
             /\ UNCHANGED <<frame, calls>>
        ELSE IF Truthy(f.context) /\ f.context.k # "dict"
        THEN /\ resp' = [resp EXCEPT ![t] = InternalError(NoAttribute(f.context, "items"))]
             /\ frame' = [frame EXCEPT ![t].system_prompt =
                            _build_system_prompt(sub_agents[f.agent])]
             /\ pc' = [pc EXCEPT ![t] = "done"]
             /\ UNCHANGED calls
        ELSE /\ frame' = [frame EXCEPT
                    ![t].system_prompt = _build_system_prompt(sub_agents[f.agent]),
                    ![t].full_prompt = _prepare_prompt(f.user_request, f.context)]
             /\ calls' = [calls EXCEPT ![t] = @ \cup {"generate_content"}]
             /\ pc' = [pc EXCEPT ![t] = "generate_content"]
             /\ UNCHANGED resp
    /\ UNCHANGED <<environ, orchestrator, sub_agents, http, regLog, ret>>

\* process_request, lines 108-135: what it returns once generate_content has
\* returned or raised
process_request(registry, context, outcome) ==
    IF outcome.ok
    THEN SuccessRecord(outcome.text, registry, context)
    ELSE ErrorRecord(outcome.text, registry)

\* the generation call ends; process_request returns and arigold_agent
\* answers 200 (main.py line 87)
GenerateContent(t, outcome) ==
    /\ pc[t] = "generate_content"
    /\ resp' = [resp EXCEPT ![t] =
            Ok(process_request(sub_agents[frame[t].agent], frame[t].context, outcome))]
    /\ frame' = [frame EXCEPT ![t].outcome = outcome]
    /\ pc' = [pc EXCEPT ![t] = "done"]
    /\ UNCHANGED <<environ, orchestrator, sub_agents, http, calls, regLog, ret>>

\* the instances some caller can still reach
Reachable == {i \in 1..Len(sub_agents) : i = orchestrator \/ \E t \in Threads : frame[t].agent = i}

\* register_agent called on an orchestrator obtained from get_orchestrator
Register(i, name, agent) ==
    /\ i \in Reachable
    /\ sub_agents' = [sub_agents EXCEPT ![i] = register_agent(@, name, agent)]
    /\ UNCHANGED <<httpVars, regLog, ret>>

NoRet == [op |-> "", name |-> "", names |-> <<>>, text |-> "",
          user_request |-> PyNone, context |-> PyNone]

Init ==
    /\ environ \in {PyNone, PyStrV("key")}
    /\ orchestrator = 0
    /\ sub_agents = <<>>
    /\ pc = [t \in Threads |-> "idle"]
    /\ http = [t \in Threads |-> NoHttp]
    /\ frame = [t \in Threads |-> NoFrame]
    /\ resp = [t \in Threads |-> NoResp]
    /\ calls = [t \in Threads |-> {}]
    /\ regLog = <<>>
    /\ ret = NoRet

\* the steps of a worker thread serving requests whose bodies are in `bodies`
Serve(t, methods, bodies) ==
    \/ \E method \in methods, body \in bodies : Receive(t, method, body)
    \/ CheckOrchestrator(t)
    \/ Construct(t)
    \/ ConstructFails(t)
    \/ ReturnOrchestrator(t)
    \/ ProcessRequest(t)
    \/ \E outcome \in GenOutcomes : GenerateContent(t, outcome)

\* One worker serves the requests one after another, with every body and
\* method; register_agent is called on the shared orchestrator at any moment,
\* also while a generation call is pending.
Next ==
    \/ \E t \in Workers : Serve(t, Methods, HttpBodies)
    \/ \E i \in 1..Len(sub_agents), name \in Names, agent \in Handles :
            Register(i, name, agent)

Spec == Init /\ [][Next]_vars

(***************************************************************************)
(* Two worker threads serve requests at once (the functions framework runs *)
(* the handler on a thread pool): get_orchestrator can be entered by both. *)
(***************************************************************************)
RaceBodies == {PyDict(<<Entry("request", PyStrV("hello"))>>)}
RaceNames == {"x"}
RaceHandles == {PyObject("h1")}

NextThreads ==
    \/ \E t \in Threads : Serve(t, {"POST"}, RaceBodies)
    \/ \E i \in 1..Len(sub_agents), name \in RaceNames, agent \in RaceHandles :
            Register(i, name, agent)

SpecThreads == Init /\ [][NextThreads]_vars

(***************************************************************************)
(* A direct caller of one AgentOrchestrator (examples/basic_usage.py):     *)
(* register_agent, list_agents and _build_system_prompt one after another. *)
(***************************************************************************)
InitCore ==
    /\ environ = PyStrV("key")
    /\ orchestrator = 0
    /\ sub_agents = <<NewRegistry>>
    /\ pc = [t \in Threads |-> "idle"]
    /\ http = [t \in Threads |-> NoHttp]
    /\ frame = [t \in Threads |-> NoFrame]
    /\ resp = [t \in Threads |-> NoResp]
    /\ calls = [t \in Threads |-> {}]
    /\ regLog = <<>>
    /\ ret = NoRet

CoreRegister(name, agent) ==
    /\ Len(regLog) < MaxRegs
    /\ sub_agents' = [sub_agents EXCEPT ![1] = register_agent(@, name, agent)]
    /\ regLog' = Append(regLog, Entry(name, agent))
    /\ ret' = [NoRet EXCEPT !.op = "register_agent", !.name = name]
    /\ UNCHANGED httpVars

CoreListAgents ==
    /\ ret' = [NoRet EXCEPT !.op = "list_agents", !.names = list_agents(sub_agents[1])]
    /\ UNCHANGED <<httpVars, sub_agents, regLog>>

CoreBuildSystemPrompt ==
    /\ ret' = [NoRet EXCEPT !.op = "_build_system_prompt",
                            !.text = _build_system_prompt(sub_agents[1])]
    /\ UNCHANGED <<httpVars, sub_agents, regLog>>

NextCore ==
    \/ \E name \in Names, agent \in Handles : CoreRegister(name, agent)
    \/ CoreListAgents
    \/ CoreBuildSystemPrompt

SpecCore == InitCore /\ [][NextCore]_vars

(***************************************************************************)
(* _prepare_prompt applied to a request text and a context.                *)
(***************************************************************************)
RequestTexts ==
    {PyStrV("hello"), PyStrV(""), PyStrV("a\nb"), PyStrV("hi\nUser Request: bye")}

CtxKeys == {"user", "task", "lang"}
CtxValues == {PyStrV("demo_user"), PyInt(7), PyBool(TRUE), PyStrV("a\nb")}
CtxEntries == {Entry(key, val) : key \in CtxKeys, val \in CtxValues}

\* None, {} and the dicts of at most MaxCtx entries
Contexts ==
    {PyNone} \cup
    {PyDict(e) : e \in {f \in UNION {[1..n -> CtxEntries] : n \in 0..MaxCtx} :
                            \A i, j \in 1..Len(f) : f[i].key = f[j].key => i = j}}

InitPrompt ==
    /\ environ = PyStrV("key")
    /\ orchestrator = 0
    /\ sub_agents = <<NewRegistry>>
    /\ pc = [t \in Threads |-> "idle"]
    /\ http = [t \in Threads |-> NoHttp]
    /\ frame = [t \in Threads |-> NoFrame]
    /\ resp = [t \in Threads |-> NoResp]
    /\ calls = [t \in Threads |-> {}]
    /\ regLog = <<>>
    /\ ret \in {[NoRet EXCEPT !.op = "call", !.user_request = r, !.context = c] :
                    r \in RequestTexts, c \in Contexts}

PreparePrompt ==
    /\ ret.op = "call"
    /\ ret' = [ret EXCEPT !.op = "_prepare_prompt",
                          !.text = _prepare_prompt(ret.user_request, ret.context)]
    /\ UNCHANGED <<httpVars, sub_agents, regLog>>

NextPrompt == PreparePrompt

SpecPrompt == InitPrompt /\ [][NextPrompt]_vars

(***************************************************************************)
(* Reading texts back: what the properties below use to inspect a prompt.  *)
(***************************************************************************)
\* the first place where sep occurs in text, 0 when it does not
FirstIndex(text, sep) ==
    LET places == {i \in 1..(Len(text) - Len(sep) + 1) :
                        SubSeq(text, i, i + Len(sep) - 1) = sep}
    IN IF places = {} THEN 0 ELSE CHOOSE i \in places : \A j \in places : i <= j

RECURSIVE Split(_, _)
\* text.split(sep)
Split(text, sep) ==
    LET i == FirstIndex(text, sep) IN
    IF i = 0 THEN <<text>>
    ELSE <<SubSeq(text, 1, i - 1)>> \o Split(SubSeq(text, i + Len(sep), Len(text)), sep)

StartsWith(text, prefix) ==
    Len(text) >= Len(prefix) /\ SubSeq(text, 1, Len(prefix)) = prefix

EndsWith(text, suffix) ==
    Len(text) >= Len(suffix)
    /\ SubSeq(text, Len(text) - Len(suffix) + 1, Len(text)) = suffix

\* a system instruction is the fixed text around the line of sub-agents
IsSystemPrompt(text) ==
    /\ Len(text) >= Len(PromptHead) + Len(PromptTail)
    /\ StartsWith(text, PromptHead)
    /\ EndsWith(text, PromptTail)

\* what follows "Available sub-agents: " on its line
AgentListOf(text) == SubSeq(text, Len(PromptHead) + 1, Len(text) - Len(PromptTail))

\* the text lists exactly these names: `none` for no name, else the names
\* in order, once each, separated by ", "
Lists(text, names) ==
    IF Len(names) = 0 THEN text = "none" ELSE Split(text, ", ") = names

\* thread t has just left the generation call: process_request has returned
Generated(t) == pc[t] = "generate_content" /\ pc'[t] = "done"

\* the JSON document of thread t's response
Doc(t) == resp[t].body.doc

\* the request had a non-empty request string
StringRequest(t) == frame[t].user_request.k = "str" /\ frame[t].user_request.s # ""

(***************************************************************************)
(* C1: whenever the generation call of process_request fails, the call     *)
(* returns (status 200 at the boundary) an error record whose `error` is   *)
(* the non-empty description of the failure, whose `response` is the fixed *)
(* fallback and whose `agents_available` is the current list of delegate   *)
(* names; the record has no `model` and no `context`.                      *)
(***************************************************************************)
C1_ErrorRecord ==
    [][\A t \in Threads :
        (Generated(t) /\ ~frame'[t].outcome.ok) =>
            /\ resp'[t].status = 200
            /\ DOMAIN resp'[t].body.doc = {"error", "response", "agents_available"}
            /\ resp'[t].body.doc.error = frame'[t].outcome.text
            /\ resp'[t].body.doc.error # ""
            /\ resp'[t].body.doc.response = FallbackResponse
            /\ resp'[t].body.doc.agents_available
                    = list_agents(sub_agents'[frame'[t].agent])]_vars

(***************************************************************************)
(* C2 as stated: for a non-empty request string and an empty context,      *)
(* process_request returns a record without `error` whose                  *)
(* `agents_available` is the current list of delegate names.               *)
(***************************************************************************)
C2_Original ==
    [][\A t \in Threads :
        (Generated(t) /\ StringRequest(t) /\ ~Truthy(frame[t].context)) =>
            /\ "error" \notin DOMAIN resp'[t].body.doc
            /\ resp'[t].body.doc.agents_available
                    = list_agents(sub_agents'[frame'[t].agent])]_vars

(***************************************************************************)
(* C2 amended: the same, when the generation call succeeds.                *)
(***************************************************************************)
C2_Success ==
    [][\A t \in Threads :
        (Generated(t) /\ StringRequest(t) /\ ~Truthy(frame[t].context)
            /\ frame'[t].outcome.ok) =>
            /\ "error" \notin DOMAIN resp'[t].body.doc
            /\ DOMAIN resp'[t].body.doc = {"response", "model", "agents_available", "context"}
            /\ resp'[t].body.doc.agents_available
                    = list_agents(sub_agents'[frame'[t].agent])]_vars

\* a successful call with an empty context, after two registrations
C2_Witness ==
    \E t \in Threads :
        /\ pc[t] = "done"
        /\ StringRequest(t)
        /\ ~Truthy(frame[t].context)
        /\ frame[t].outcome.ok
        /\ resp[t].status = 200
        /\ Len(Doc(t).agents_available) = 2

NoRequestField(body) ==
    \/ ~Truthy(body)
    \/ body.k # "dict"
    \/ ~HasKey(body.entries, "request")
    \/ RequestField(body) = PyStrV("")

(***************************************************************************)
(* C4: a request other than OPTIONS whose body is missing, or whose        *)
(* `request` field is missing or empty, is answered 400 with a JSON body   *)
(* that has an `error` field, and neither the orchestrator is obtained nor *)
(* the generation service called for it.                                   *)
(***************************************************************************)
C4_BadRequest ==
    \A t \in Threads :
        (pc[t] = "done" /\ http[t].method # "OPTIONS" /\ NoRequestField(http[t].body)) =>
            /\ resp[t].status = 400
            /\ resp[t].body.k = "json"
            /\ "error" \in DOMAIN Doc(t)
            /\ calls[t] = {}

FailureIs200(t) ==
    ("generate_content" \in calls[t] /\ StringRequest(t) /\ ~frame[t].outcome.ok) =>
        /\ resp[t].status = 200
        /\ resp[t].body.k = "json"
        /\ "error" \in DOMAIN Doc(t)
        /\ Doc(t).error = frame[t].outcome.text
        /\ Doc(t).response = FallbackResponse

\* request_json.get raised: nothing was called for the request
EscapedParsing(t) == calls[t] = {} /\ http[t].body.k # "dict"

\* process_request raised before its try block, after get_orchestrator returned
EscapedProcessRequest(t) ==
    /\ frame[t].agent # 0
    /\ "generate_content" \notin calls[t]
    /\ ~Sliceable(frame[t].user_request) \/ frame[t].context.k # "dict"

\* AgentOrchestrator(...) raised inside get_orchestrator
EscapedGetOrchestrator(t) == "AgentOrchestrator" \in calls[t] /\ frame[t].agent = 0

C6_Cors ==
    \A t \in Threads :
        pc[t] = "done" =>
            IF http[t].method = "OPTIONS"
            THEN /\ resp[t].status = 204
                 /\ resp[t].body = PyStrV("")
                 /\ resp[t].headers =
                        {<<"Access-Control-Allow-Origin", "*">>,
                         <<"Access-Control-Allow-Methods", "POST, GET, OPTIONS">>,
                         <<"Access-Control-Allow-Headers", "Content-Type">>,
                         <<"Access-Control-Max-Age", "3600">>}
                 /\ calls[t] = {}
            ELSE /\ resp[t].status \in {200, 400, 500}
                 /\ <<"Access-Control-Allow-Origin", "*">> \in resp[t].headers

\* a preflight request that carries a body the POST handler would accept
C6_Witness ==
    \E t \in Threads :
        /\ pc[t] = "done"
        /\ http[t].method = "OPTIONS"
        /\ Truthy(http[t].body) /\ http[t].body.k = "dict"
        /\ Truthy(RequestField(http[t].body))
        /\ resp[t].status = 204

(***************************************************************************)
(* C10 as stated: the `agents_available` of the returned record equals the *)
(* list of delegate names written into the system instruction of the same  *)
(* call, also when register_agent runs while the call is pending.          *)
(***************************************************************************)
C10_Original ==
    \A t \in Threads :
        (pc[t] = "done" /\ "generate_content" \in calls[t]) =>
            /\ IsSystemPrompt(frame[t].system_prompt)
            /\ Lists(AgentListOf(frame[t].system_prompt), Doc(t).agents_available)

(***************************************************************************)
(* C10 amended: the names written into the system instruction are a        *)
(* prefix of `agents_available`: the names registered while the call was   *)
(* pending follow them.                                                    *)
(***************************************************************************)
C10_Prefix ==
    \A t \in Threads :
        (pc[t] = "done" /\ "generate_content" \in calls[t]) =>
            /\ IsSystemPrompt(frame[t].system_prompt)
            /\ \E n \in 0..Len(Doc(t).agents_available) :
                    Lists(AgentListOf(frame[t].system_prompt),
                          SubSeq(Doc(t).agents_available, 1, n))

\* a call during which a second delegate was registered
C10_Witness ==
    \E t \in Threads :
        /\ pc[t] = "done"
        /\ "generate_content" \in calls[t]
        /\ Len(Doc(t).agents_available) = 2
        /\ Lists(AgentListOf(frame[t].system_prompt),
                 SubSeq(Doc(t).agents_available, 1, 1))

(***************************************************************************)
(* C9: AgentOrchestrator is instantiated at most once in a process and     *)
(* every call of get_orchestrator returns that one instance, also when two *)
(* requests are inside get_orchestrator at the same time.                  *)
(***************************************************************************)
C9_Singleton ==
    /\ Len(sub_agents) <= 1
    /\ \A t, u \in Threads :
            (frame[t].agent # 0 /\ frame[u].agent # 0) => frame[t].agent = frame[u].agent

Range(f) == {f[i] : i \in DOMAIN f}

RECURSIVE FirstSeen(_)
\* the names of a sequence, each at the place of its first occurrence
FirstSeen(names) ==
    IF Len(names) = 0 THEN <<>>
    ELSE LET before == FirstSeen(SubSeq(names, 1, Len(names) - 1))
             last == names[Len(names)]
         IN IF last \in Range(before) THEN before ELSE Append(before, last)

\* the handle of the last registration of name
LastAgent(log, name) ==
    log[CHOOSE i \in 1..Len(log) :
            log[i].key = name /\ \A j \in (i + 1)..Len(log) : log[j].key # name].val

(***************************************************************************)
(* C3: list_agents returns the names registered so far, each once, in the  *)
(* order of their first registration; a name just registered is in the     *)
(* registry, and every name is mapped to the handle of its last            *)
(* registration.                                                           *)
(***************************************************************************)
C3_Registry ==
    LET registry == sub_agents[1]
        logged == FirstSeen(Keys(regLog))
    IN /\ Len(registry) = Len(logged)
       /\ \A i \in 1..Len(registry) :
            /\ registry[i].key = logged[i]
            /\ registry[i].val = LastAgent(regLog, registry[i].key)
       /\ ret.op = "list_agents" => ret.names = Keys(registry)
       /\ ret.op = "register_agent" => ret.name \in Range(Keys(registry))

\* x, then y, then x again with another handle, then list_agents
C3_Witness ==
    /\ ret.op = "list_agents"
    /\ Len(regLog) = 3
    /\ regLog[1].key = regLog[3].key
    /\ regLog[1].val # regLog[3].val
    /\ regLog[2].key # regLog[1].key
    /\ Len(ret.names) = 2

C7_Listing ==
    ret'.op = "_build_system_prompt" =>
        /\ IsSystemPrompt(ret'.text)
        /\ Lists(AgentListOf(ret'.text), list_agents(sub_agents'[1]))

(***************************************************************************)
(* C7 as stated: the system instruction lists, after "Available            *)
(* sub-agents: ", `none` when no delegate is registered and otherwise      *)
(* every registered name once, in insertion order, joined by ", "; and a   *)
(* register_agent call changes the system instruction of later calls.      *)
(***************************************************************************)
C7_Original ==
    [][/\ C7_Listing
       /\ ret'.op = "register_agent" =>
            _build_system_prompt(sub_agents'[1]) # _build_system_prompt(sub_agents[1])]_vars

(***************************************************************************)
(* C7 amended: the listing as stated; a register_agent call changes the    *)
(* system instruction of later calls exactly when it adds a name that was  *)
(* not registered, other than the name `none` added to an empty registry.  *)
(***************************************************************************)
C7_Amended ==
    [][/\ C7_Listing
       /\ ret'.op = "register_agent" =>
            ((_build_system_prompt(sub_agents'[1]) # _build_system_prompt(sub_agents[1]))
                <=> /\ ~HasKey(sub_agents[1], ret'.name)
                    /\ ~(Len(sub_agents[1]) = 0 /\ ret'.name = "none"))]_vars

\* the instruction built with three delegates registered
C7_Witness ==
    /\ ret.op = "_build_system_prompt"
    /\ Len(sub_agents[1]) = 3
    /\ Len(Split(AgentListOf(ret.text), ", ")) = 3

ExpectedLines(user_request, context) ==
    IF context.k = "dict" /\ Len(context.entries) > 0
    THEN <<"Context:">>
         \o [i \in 1..Len(context.entries) |->
                "- " \o context.entries[i].key \o ": " \o Display(context.entries[i].val)]
         \o <<"", "User Request: " \o user_request.s>>
    ELSE <<"User Request: " \o user_request.s>>

LineStructure(text, user_request, context) ==
    LET lines == Split(text, "\n") IN
        /\ lines = ExpectedLines(user_request, context)
        /\ lines[Len(lines)] = "User Request: " \o user_request.s
        /\ Cardinality({i \in 1..Len(lines) : StartsWith(lines[i], "User Request:")}) = 1

(***************************************************************************)
(* C8 as stated: the user prompt is, for a non-empty context, the line     *)
(* `Context:`, one line `- key: value` per entry in order, a blank line    *)
(* and `User Request: <request_text>`; for no context it is that single    *)
(* line; the `User Request:` line is last and appears exactly once.        *)
(***************************************************************************)
C8_Original ==
    ret.op = "_prepare_prompt" => LineStructure(ret.text, ret.user_request, ret.context)

NoBreak(text) == FirstIndex(text, "\n") = 0

NoBreaks(user_request, context) ==
    /\ NoBreak(user_request.s)
    /\ context.k = "dict" =>
            \A i \in 1..Len(context.entries) :
                /\ NoBreak(context.entries[i].key)
                /\ NoBreak(Display(context.entries[i].val))

(***************************************************************************)
(* C8 amended: the same when neither the request text nor a key or value   *)
(* of the context holds a line break; in every case the prompt ends with   *)
(* `User Request: <request_text>` and is exactly that text for no context. *)
(***************************************************************************)
C8_Amended ==
    ret.op = "_prepare_prompt" =>
        /\ EndsWith(ret.text, "User Request: " \o ret.user_request.s)
        /\ ~Truthy(ret.context) => ret.text = "User Request: " \o ret.user_request.s
        /\ Truthy(ret.context) => StartsWith(ret.text, "Context:\n- ")
        /\ NoBreaks(ret.user_request, ret.context) =>
                LineStructure(ret.text, ret.user_request, ret.context)

\* the prompt of a context of two entries
C8_Witness ==
    /\ ret.op = "_prepare_prompt"
    /\ ret.context.k = "dict"
    /\ Len(ret.context.entries) = 2
    /\ NoBreaks(ret.user_request, ret.context)
    /\ Len(Split(ret.text, "\n")) = 5

====
